---------------------------- MODULE Spec2Model ----------------------------
(***************************************************************************)
(* Monte-Carlo stock price prediction with geometric Brownian motion.      *)
(*                                                                         *)
(* The module models                                                       *)
(*   - MonteCarloSimulator.run_simulation   (src/simulator.py)             *)
(*   - DataFetcher.fetch_data / calculate_parameters (src/data_fetcher.py) *)
(*   - ResultAnalyzer and Visualizer over a returned ensemble              *)
(*                                  (src/analyzer.py, src/visualizer.py)   *)
(*   - the order of calls of main() and run_prediction()                   *)
(*                                  (src/main.py, src/app.py)              *)
(*                                                                         *)
(* Numbers.  A float64 cell is carried as a record [k, s, e]:              *)
(*   k = "num"  : the finite non-zero value  s * exp(e), s in {-1, 1},     *)
(*                e an integer number of log units (nats);                 *)
(*   k = "zero" : 0.0;   k = "inf" : s * infinity;   k = "nan" : NaN.      *)
(* Arithmetic inside the float64 range is exact; a result whose logarithm  *)
(* leaves [ExpMin, ExpMax] underflows to 0.0 or overflows to infinity, as  *)
(* numpy's float64 does.  Quantities that live on the logarithmic scale    *)
(* (drift, log-returns, exponents) are plain integers in the same unit.    *)
(* The analyzer works on ensembles of finite prices in whole currency      *)
(* units and computes with exact fractions.                                *)
(***************************************************************************)
EXTENDS Integers, Sequences, FiniteSets, TLC

\* ------------------------------------------------------------------ bounds
MaxPaths == 2
MaxDays == 3
\* Longest series the market-data provider returns.
MaxLen == 3

\* --------------------------------------------------------------- constants
\* Trading days per year: dt = 1/252, annualisation factor 252.
TradingDays == 252
\* float64: exp(x) and products overflow to inf above e^709 and underflow to
\* 0.0 below e^-745 (the array is allocated by np.zeros, dtype float64).
ExpMax == 709
ExpMin == -745

\* ------------------------------------------------------------ float values
NaN == [k |-> "nan", s |-> 0, e |-> 0]
Zero == [k |-> "zero", s |-> 0, e |-> 0]
Inf(sgn) == [k |-> "inf", s |-> sgn, e |-> 0]
Num(sgn, lg) == [k |-> "num", s |-> sgn, e |-> lg]

IsPositive(x) == x.k \in {"num", "inf"} /\ x.s = 1
IsNegative(x) == x.k \in {"num", "inf"} /\ x.s = -1

\* The float64 nearest to  sgn * exp(lg).
Round(sgn, lg) ==
    IF lg > ExpMax THEN Inf(sgn)
    ELSE IF lg < ExpMin THEN Zero
    ELSE Num(sgn, lg)

\* np.exp on a finite argument.
FExp(x) == Round(1, x)

\* float64 multiplication  a * b.
FMul(a, b) ==
    IF a.k = "nan" \/ b.k = "nan" THEN NaN
    ELSE IF (a.k = "inf" /\ b.k = "zero") \/ (a.k = "zero" /\ b.k = "inf") THEN NaN
    ELSE IF a.k = "zero" \/ b.k = "zero" THEN Zero
    ELSE IF a.k = "inf" \/ b.k = "inf" THEN Inf(a.s * b.s)
    ELSE Round(a.s * b.s, a.e + b.e)

\* Exact integer square root (the model only takes roots of perfect squares).
ISqrt(n) == CHOOSE r \in 0..n : r * r = n

\* ----------------------------------------------------- simulator: inputs
\* current_price values handed to the constructor: negative, zero, 1.0 and
\* e^5 (about 148).
CurrentPriceSet == {Num(-1, 0), Zero, Num(1, 0), Num(1, 5)}

\* Annualised drift mu (log units per year).
MuSet == {-374 * TradingDays, 0, TradingDays, 400 * TradingDays}

\* Annualised volatility.  sigma is carried by its square sigma^2, so that
\* sigma * sqrt(dt) = sqrt(sigma^2 * dt) stays exact: the values below are
\* sigma = 0, sigma = 2*sqrt(252) and sigma = 40*sqrt(252).
SigmaSet == {0, 4 * TradingDays, 1600 * TradingDays}

\* Standard-normal draws (any real can be drawn; one representative below and
\* one above the mean).
Draws == {-1, 1}

VARIABLES
    pc,               \* position of run_simulation: "init", "loop", "returned", "raised"
    current_price,    \* self.current_price
    mu,               \* self.mu
    sigma,            \* self.sigma (carried as sigma^2)
    num_simulations,  \* argument of run_simulation
    forecast_days,    \* argument of run_simulation
    simulations,      \* the array: simulations[day][path], day and path from 0
    t,                \* loop variable of the day loop
    Z,                \* Z[d][p]: the draw vector of loop iteration d (history)
    ndraws,           \* how many numbers standard_normal has handed out (history)
    exc,              \* exception that left run_simulation, or "none"
    historical_days,  \* DataFetcher.historical_days
    data,             \* DataFetcher.data: None or the sequence of Close prices
    returns,          \* DataFetcher.returns: None or the sequence of log-returns
    df_mu,            \* DataFetcher.mu: None or a value of the log scale
    df_sigma,         \* DataFetcher.sigma (carried as sigma^2): None or a value
    df_op,            \* last DataFetcher method called, "none" before the first call
    df_exc,           \* exception raised by that call, or "none"
    ensemble,         \* the array run_simulation returned (None before), which
                      \* ResultAnalyzer.simulations and Visualizer.simulations refer to
    an_built,         \* TRUE once a ResultAnalyzer has been constructed
    an_current_price, \* ResultAnalyzer.current_price
    results,          \* ResultAnalyzer.results: None or the statistics record
    an_op,            \* last ResultAnalyzer / Visualizer operation called
    an_exc,           \* exception raised by that call, or "none"
    an_out,           \* what that call computed for its text
    pipe_entry,       \* the pipeline function running: "main" or "run_prediction"
    pipe_log,         \* the calls the pipeline has started, in order (history)
    pipe_status,      \* "idle", "running", "finished", "no_input", "no_ticker", "error"
    pipe_response,    \* what run_prediction returned: the dictionary's success flag and keys
    tf_pc,            \* position of find_ticker: "idle", "validate", "returned"
    tf_name,          \* its argument company_name
    tf_response,      \* the text the lookup service answered with, None without one
    tf_candidates,    \* ticker_candidates
    tf_i,             \* position of the validation loop in ticker_candidates
    tf_checked,       \* the calls of _validate_ticker and their answers (history)
    tf_result         \* what find_ticker returned: None or a ticker

simvars == <<pc, current_price, mu, sigma, num_simulations, forecast_days,
             simulations, t, Z, ndraws, exc>>
dfvars == <<historical_days, data, returns, df_mu, df_sigma, df_op, df_exc>>
anvars == <<ensemble, an_built, an_current_price, results, an_op, an_exc, an_out>>
pipevars == <<pipe_entry, pipe_log, pipe_status, pipe_response>>
tfvars == <<tf_pc, tf_name, tf_response, tf_candidates, tf_i, tf_checked, tf_result>>
vars == <<simvars, dfvars, anvars, pipevars, tfvars>>

\* Attributes that can be None are carried as [some, v]: None is
\* [some |-> FALSE], with v a placeholder of the right shape.
Some(x) == [some |-> TRUE, v |-> x]
NoData == [some |-> FALSE, v |-> << >>]
NoValue == [some |-> FALSE, v |-> [k |-> "nan", s |-> 0, n |-> 0, d |-> 1]]

\* Values the analyzer computes are exact fractions n/d (d > 0), or what
\* float64 gives for a division by zero: an infinity (n its sign) or NaN.
Rat(num, den) == [k |-> "num", n |-> num, d |-> den]
RNaN == [k |-> "nan", n |-> 0, d |-> 1]
RInf(sgn) == [k |-> "inf", n |-> sgn, d |-> 1]

\* self.results = None, and the output of an operation that returned no text.
NoResults == [some |-> FALSE, v |-> << >>]
NoOut == [text |-> FALSE, bands |-> << >>, skewness |-> RNaN, kurtosis |-> RNaN,
          ratio |-> RNaN, modal |-> [lo |-> RNaN, hi |-> RNaN],
          above_current |-> RNaN, above_mean |-> RNaN, within_std |-> RNaN,
          paths_above |-> 0, paths_below |-> 0,
          mean_path |-> << >>, mid_point |-> 0]

\* State of the analyzer side before run_simulation has returned.
AnIdle ==
    /\ ensemble = NoData
    /\ an_built = FALSE
    /\ an_current_price = 0
    /\ results = NoResults
    /\ an_op = "none"
    /\ an_exc = "none"
    /\ an_out = NoOut

\* No pipeline function is running.
NoResponse == [returned |-> FALSE, success |-> FALSE, keys |-> {}]
PipeIdle ==
    /\ pipe_entry = "none"
    /\ pipe_log = << >>
    /\ pipe_status = "idle"
    /\ pipe_response = NoResponse

\* find_ticker has not been called.
TfIdle ==
    /\ tf_pc = "idle"
    /\ tf_name = << >>
    /\ tf_response = NoData
    /\ tf_candidates = << >>
    /\ tf_i = 0
    /\ tf_checked = << >>
    /\ tf_result = NoData

\* --------------------------------------------------- simulator: operators
\* x * dt with dt = 1/252.
MulDt(x) == x \div TradingDays

\* self.sigma**2  (sigma is carried as its square).
SigmaSquared(sig) == sig

\* self.sigma * np.sqrt(dt)
SigmaSqrtDt(sig) == ISqrt(MulDt(sig))

\* Variant: the Ito correction -0.5*sigma^2 left out of the drift.
ExponentNoCorrection(m, sig, z) ==
    MulDt(m) + SigmaSqrtDt(sig) * z

\* Variant: the shock z not scaled by sigma*sqrt(dt).
ExponentUnscaledShock(m, sig, z) ==
    MulDt(m - SigmaSquared(sig) \div 2) + z

\* (mu - 0.5*sigma^2)*dt + sigma*sqrt(dt)*z        -- argument of np.exp
Exponent(m, sig, z) ==
    MulDt(m - SigmaSquared(sig) \div 2) + SigmaSqrtDt(sig) * z

\* First day computed by the loop: range(1, forecast_days).
LoopStart == 1

\* Variant: the day loop runs one day past the horizon, range(1, forecast_days + 1).
LoopContinuesInclusive(day, days) == day <= days

\* The day loop goes on while t is in range(1, forecast_days).
LoopContinues(day, days) == day < days

\* Variant: one scalar draw per day, np.random.standard_normal(), shared by
\* every path.
DrawCountScalar(paths) == 1

\* How many numbers np.random.standard_normal(num_simulations) draws.
DrawCount(paths) == paths

\* The vectors np.random.standard_normal(num_simulations) can return: one
\* independent draw for each path.
DrawVectors(paths) == [0..(paths - 1) -> Draws]

\* Variant: the assignment simulations[0] = current_price left out.
InitialArrayZeros(days, paths, price) ==
    [d \in 0..(days - 1) |-> [p \in 0..(paths - 1) |-> Zero]]

\* np.zeros((forecast_days, num_simulations)); simulations[0] = current_price
InitialArray(days, paths, price) ==
    [d \in 0..(days - 1) |->
        [p \in 0..(paths - 1) |-> IF d = 0 THEN price ELSE Zero]]

\* Variant: the loop stores its result one row too early.
WriteIndexPrev(day) == day - 1

\* Row assigned by iteration t:  simulations[t] = ...
WriteIndex(day) == day

\* simulations[t-1] * np.exp(...)  for one path.
NextPrice(prev, m, sig, z) == FMul(prev, FExp(Exponent(m, sig, z)))

\* Variant: path p continues from its neighbour's previous-day value.
NewRowNeighbour(sims, day, m, sig, z) ==
    [p \in DOMAIN z |->
        NextPrice(sims[day - 1][(p + 1) % Cardinality(DOMAIN z)], m, sig, z[p])]

\* The row written by loop iteration day.
NewRow(sims, day, m, sig, z) ==
    [p \in DOMAIN z |-> NextPrice(sims[day - 1][p], m, sig, z[p])]

\* ----------------------------------------------------- simulator: actions
SimInit ==
    /\ pc = "init"
    /\ current_price \in CurrentPriceSet
    /\ mu \in MuSet
    /\ sigma \in SigmaSet
    /\ num_simulations = 0
    /\ forecast_days = 0
    /\ simulations = << >>
    /\ t = 0
    /\ Z = << >>
    /\ ndraws = 0
    /\ exc = "none"
    /\ historical_days = TradingDays
    /\ data = NoData
    /\ returns = NoData
    /\ df_mu = NoValue
    /\ df_sigma = NoValue
    /\ df_op = "none"
    /\ df_exc = "none"
    /\ AnIdle
    /\ PipeIdle
    /\ TfIdle

\* np.zeros with a negative dimension raises ValueError.
RunSimulationBadShape ==
    /\ pc = "init"
    /\ \E n \in -1..MaxPaths, d \in -1..MaxDays :
        /\ n < 0 \/ d < 0
        /\ num_simulations' = n
        /\ forecast_days' = d
    /\ pc' = "raised"
    /\ exc' = "ValueError"
    /\ UNCHANGED <<current_price, mu, sigma, simulations, t, Z, ndraws, dfvars, anvars, pipevars, tfvars>>

\* forecast_days = 0: simulations[0] = ... raises IndexError.
RunSimulationNoRow ==
    /\ pc = "init"
    /\ \E n \in 0..MaxPaths :
        /\ num_simulations' = n
        /\ forecast_days' = 0
    /\ pc' = "raised"
    /\ exc' = "IndexError"
    /\ UNCHANGED <<current_price, mu, sigma, simulations, t, Z, ndraws, dfvars, anvars, pipevars, tfvars>>

\* Entry of run_simulation up to the start of the day loop.
RunSimulationStart ==
    /\ pc = "init"
    /\ \E n \in 0..MaxPaths, d \in 1..MaxDays :
        /\ num_simulations' = n
        /\ forecast_days' = d
        /\ simulations' = InitialArray(d, n, current_price)
    /\ t' = LoopStart
    /\ pc' = "loop"
    /\ UNCHANGED <<current_price, mu, sigma, Z, ndraws, exc, dfvars, anvars, pipevars, tfvars>>

\* One iteration of  for t in range(1, forecast_days).
LoopStep ==
    /\ pc = "loop"
    /\ LoopContinues(t, forecast_days)
    /\ \E z \in DrawVectors(num_simulations) :
        /\ ndraws' = ndraws + DrawCount(num_simulations)
        /\ Z' = [d \in (DOMAIN Z) \cup {t} |-> IF d = t THEN z ELSE Z[d]]
        /\ simulations' = [simulations EXCEPT ![WriteIndex(t)] = NewRow(simulations, t, mu, sigma, z)]
    /\ t' = t + 1
    /\ UNCHANGED <<pc, current_price, mu, sigma, num_simulations, forecast_days, exc, dfvars, anvars, pipevars, tfvars>>

\* Loop exhausted: preview statistics are printed and the array is returned.
RunSimulationReturn ==
    /\ pc = "loop"
    /\ ~LoopContinues(t, forecast_days)
    /\ pc' = "returned"
    /\ UNCHANGED <<current_price, mu, sigma, num_simulations, forecast_days,
                   simulations, t, Z, ndraws, exc, dfvars, anvars, pipevars, tfvars>>

SimNext ==
    \/ RunSimulationBadShape
    \/ RunSimulationNoRow
    \/ RunSimulationStart
    \/ LoopStep
    \/ RunSimulationReturn

SimSpec == SimInit /\ [][SimNext]_vars

\* ============================================================= DataFetcher
\* Values of the logarithmic scale (log-returns, mean, mu, sigma^2): a record
\* [k, s, n, d] with k = "num" the exact rational n/d (d > 0), k = "inf" the
\* infinity of sign s, k = "nan" NaN.
LNaN == [k |-> "nan", s |-> 0, n |-> 0, d |-> 1]
LInf(sgn) == [k |-> "inf", s |-> sgn, n |-> 0, d |-> 1]
LNum(num, den) == [k |-> "num", s |-> 0, n |-> num, d |-> den]

\* Close prices the provider can deliver: negative, zero, missing (NaN) and
\* positive ones.
ClosePrices ==
    {Num(-1, 0), Num(-1, 1), Zero, NaN, Num(1, 0), Num(1, 1), Num(1, 3)}

\* Series the provider can return for a ticker (the empty one included).
ProviderSeries == UNION {[1..n -> ClosePrices] : n \in 0..MaxLen}

\* float64 division a / b as pandas divides two columns: no exception, a
\* division by zero gives an infinity or NaN.
FDiv(a, b) ==
    IF a.k = "nan" \/ b.k = "nan" THEN NaN
    ELSE IF b.k = "zero" THEN (IF a.k = "zero" THEN NaN ELSE Inf(a.s))
    ELSE IF b.k = "inf" THEN (IF a.k = "inf" THEN NaN ELSE Zero)
    ELSE IF a.k = "zero" THEN Zero
    ELSE IF a.k = "inf" THEN Inf(a.s * b.s)
    ELSE Round(a.s * b.s, a.e - b.e)

\* np.log: NaN for a negative argument or NaN, -inf for 0, +inf for +inf.
FLog(x) ==
    IF x.k = "nan" THEN LNaN
    ELSE IF x.k = "zero" THEN LInf(-1)
    ELSE IF x.s = -1 THEN LNaN
    ELSE IF x.k = "inf" THEN LInf(1)
    ELSE LNum(x.e, 1)

\* Series.shift(1): element i holds element i-1, the first one is NaN.
Shift1(close) == [i \in DOMAIN close |-> IF i = 1 THEN NaN ELSE close[i - 1]]

\* Series.dropna(): the elements that are not NaN, in order (infinities stay).
RECURSIVE DropNa(_)
DropNa(xs) ==
    IF xs = << >> THEN << >>
    ELSE IF Head(xs).k = "nan" THEN DropNa(Tail(xs))
    ELSE <<Head(xs)>> \o DropNa(Tail(xs))

\* np.log(Close / Close.shift(1)).dropna()
LogReturns(close) ==
    DropNa([i \in DOMAIN close |-> FLog(FDiv(close[i], Shift1(close)[i]))])

\* DataFrame.tail(n): the last n rows.
TailRows(xs, n) ==
    IF Len(xs) <= n THEN xs ELSE SubSeq(xs, Len(xs) - n + 1, Len(xs))

HasInf(rs, sgn) == \E i \in DOMAIN rs : rs[i].k = "inf" /\ rs[i].s = sgn
AllNum(rs) == \A i \in DOMAIN rs : rs[i].k = "num"

\* Sum of the numerators of a sequence of finite integer-valued returns.
RECURSIVE SumN(_)
SumN(rs) == IF rs = << >> THEN 0 ELSE Head(rs).n + SumN(Tail(rs))

\* Sum over i of (count * r_i - sum)^2  =  count^2 * sum of squared deviations
\* from the mean.
RECURSIVE SumSqDev(_, _, _)
SumSqDev(rs, count, total) ==
    IF rs = << >> THEN 0
    ELSE (count * Head(rs).n - total) * (count * Head(rs).n - total)
         + SumSqDev(Tail(rs), count, total)

\* Series.mean(): NaN for an empty series; infinities propagate
\* (inf + -inf = NaN).
Mean(rs) ==
    IF Len(rs) = 0 THEN LNaN
    ELSE IF HasInf(rs, 1) /\ HasInf(rs, -1) THEN LNaN
    ELSE IF HasInf(rs, 1) THEN LInf(1)
    ELSE IF HasInf(rs, -1) THEN LInf(-1)
    ELSE LNum(SumN(rs), Len(rs))

\* Variant: the population convention (numpy's default, ddof = 0).
DdofPopulation == 1 - 1

\* Series.std() is called without arguments: pandas' delta degrees of freedom.
Ddof == 1

\* Square of Series.std(): sum of squared deviations over (count - ddof); NaN
\* when count <= ddof or when an infinite return makes a deviation inf - inf.
Variance(rs) ==
    IF Len(rs) <= Ddof THEN LNaN
    ELSE IF ~AllNum(rs) THEN LNaN
    ELSE LNum(SumSqDev(rs, Len(rs), SumN(rs)), Len(rs) * Len(rs) * (Len(rs) - Ddof))

\* x * c for a positive integer factor c.
LScale(x, c) == IF x.k = "num" THEN LNum(x.n * c, x.d) ELSE x

\* self.returns.mean() * 252
AnnualizedDrift(rs) == LScale(Mean(rs), TradingDays)

\* (self.returns.std() * np.sqrt(252))^2  =  variance * 252
AnnualizedVarianceOf(rs) == LScale(Variance(rs), TradingDays)

DfInit ==
    /\ pc = "init"
    /\ current_price = Zero
    /\ mu = 0
    /\ sigma = 0
    /\ num_simulations = 0
    /\ forecast_days = 0
    /\ simulations = << >>
    /\ t = 0
    /\ Z = << >>
    /\ ndraws = 0
    /\ exc = "none"
    /\ historical_days \in 1..MaxLen
    /\ data = NoData
    /\ returns = NoData
    /\ df_mu = NoValue
    /\ df_sigma = NoValue
    /\ df_op = "none"
    /\ df_exc = "none"
    /\ AnIdle
    /\ PipeIdle
    /\ TfIdle

\* Variant: the answer of the provider is not looked at.
EmptyFrameUnchecked(frame) == FALSE

\* self.data.empty: the provider's answer has no rows.
EmptyFrame(frame) == frame = << >>

\* fetch_data is modelled for the first fetch of a fetcher and for a retry
\* after an empty answer.
CanFetch == ~data.some \/ data.v = << >>

\* fetch_data, provider answers with an empty frame: self.data is assigned,
\* then ValueError is raised.
FetchDataEmpty ==
    /\ CanFetch
    /\ data' = Some(<< >>)
    /\ df_op' = "fetch_data"
    /\ df_exc' = "ValueError"
    /\ UNCHANGED <<historical_days, returns, df_mu, df_sigma, simvars, anvars, pipevars, tfvars>>

\* fetch_data, provider answers with rows: the last historical_days are kept.
FetchDataRows ==
    /\ CanFetch
    /\ \E series \in ProviderSeries :
        /\ Len(series) > 0
        /\ data' = Some(TailRows(series, historical_days))
    /\ df_op' = "fetch_data"
    /\ df_exc' = "none"
    /\ UNCHANGED <<historical_days, returns, df_mu, df_sigma, simvars, anvars, pipevars, tfvars>>

\* calculate_parameters before any fetch: ValueError, nothing assigned.
CalculateParametersNoData ==
    /\ ~data.some
    /\ df_op' = "calculate_parameters"
    /\ df_exc' = "ValueError"
    /\ UNCHANGED <<historical_days, data, returns, df_mu, df_sigma, simvars, anvars, pipevars, tfvars>>

\* calculate_parameters on the empty frame a failed fetch left behind, when
\* the provider's empty frame carries no Close column: self.data['Close']
\* raises KeyError and nothing is assigned.  (Whether the empty frame has the
\* column depends on the provider library; both outcomes are modelled.)
CalculateParametersNoColumn ==
    /\ data.some
    /\ data.v = << >>
    /\ df_op' = "calculate_parameters"
    /\ df_exc' = "KeyError"
    /\ UNCHANGED <<historical_days, data, returns, df_mu, df_sigma, simvars, anvars, pipevars, tfvars>>

\* calculate_parameters on fetched data: returns, mu and sigma are assigned
\* and (mu, sigma) is returned.
CalculateParameters ==
    /\ data.some
    /\ returns' = Some(LogReturns(data.v))
    /\ df_mu' = Some(AnnualizedDrift(LogReturns(data.v)))
    /\ df_sigma' = Some(AnnualizedVarianceOf(LogReturns(data.v)))
    /\ df_op' = "calculate_parameters"
    /\ df_exc' = "none"
    /\ UNCHANGED <<historical_days, data, simvars, anvars, pipevars, tfvars>>

\* Variant: the guard of the reading methods lets a fetcher without data by.
NoDataRaisesNot(frame) == "none"

\* if self.data is None: raise ValueError("No data available. Run
\* fetch_data() first.") -- the guard get_current_price, get_price_history and
\* get_summary_statistics share with calculate_parameters.
NoDataRaises(frame) == IF ~frame.some THEN "ValueError" ELSE "none"

\* What reading self.data['Close'].iloc[-1] off an empty frame raises: KeyError
\* when the frame has no Close column, IndexError when it has the column.
EmptyCloseErrors == {"KeyError", "IndexError"}

\* get_current_price(): the guard, then self.data['Close'].iloc[-1]; nothing
\* is assigned.
GetCurrentPrice ==
    /\ df_op' = "get_current_price"
    /\ IF NoDataRaises(data) # "none" THEN df_exc' = NoDataRaises(data)
       ELSE IF data.v = << >> THEN df_exc' \in EmptyCloseErrors
       ELSE df_exc' = "none"
    /\ UNCHANGED <<historical_days, data, returns, df_mu, df_sigma, simvars, anvars, pipevars, tfvars>>

\* get_price_history(): the guard, then self.data['Close'].values; of an
\* empty frame with the column that is an empty array.
GetPriceHistory ==
    /\ df_op' = "get_price_history"
    /\ IF NoDataRaises(data) # "none" THEN df_exc' = NoDataRaises(data)
       ELSE IF data.v = << >> THEN df_exc' \in {"KeyError", "none"}
       ELSE df_exc' = "none"
    /\ UNCHANGED <<historical_days, data, returns, df_mu, df_sigma, simvars, anvars, pipevars, tfvars>>

\* get_summary_statistics(): the guard, then prices.iloc[-1] and the other
\* figures of the dictionary; nothing is assigned.
GetSummaryStatistics ==
    /\ df_op' = "get_summary_statistics"
    /\ IF NoDataRaises(data) # "none" THEN df_exc' = NoDataRaises(data)
       ELSE IF data.v = << >> THEN df_exc' \in EmptyCloseErrors
       ELSE df_exc' = "none"
    /\ UNCHANGED <<historical_days, data, returns, df_mu, df_sigma, simvars, anvars, pipevars, tfvars>>

\* print_summary(): prints a notice and returns when self.data is None,
\* otherwise prints what get_summary_statistics() gives.
PrintSummary ==
    /\ df_op' = "print_summary"
    /\ IF ~data.some THEN df_exc' = "none"
       ELSE IF data.v = << >> THEN df_exc' \in EmptyCloseErrors
       ELSE df_exc' = "none"
    /\ UNCHANGED <<historical_days, data, returns, df_mu, df_sigma, simvars, anvars, pipevars, tfvars>>

DfNext ==
    \/ FetchDataEmpty
    \/ FetchDataRows
    \/ CalculateParametersNoData
    \/ CalculateParametersNoColumn
    \/ CalculateParameters
    \/ GetCurrentPrice
    \/ GetPriceHistory
    \/ GetSummaryStatistics
    \/ PrintSummary

DfSpec == DfInit /\ [][DfNext]_vars

\* ======================================================= simulator claims
Paths == 0..(num_simulations - 1)
Days == 0..(forecast_days - 1)

\* Precondition of the simulator contract: current_price > 0, at least one
\* path and one day (mu is finite and sigma >= 0 for every input of the model).
ValidCall == IsPositive(current_price) /\ num_simulations >= 1 /\ forecast_days >= 1

\* Exact logarithm of the price of path p on day d (no rounding applied).
RECURSIVE LogPrice(_, _)
LogPrice(d, p) ==
    IF d = 0 THEN current_price.e
    ELSE LogPrice(d - 1, p) + Exponent(mu, sigma, Z[d][p])

\* Up to day d, neither an exponential nor a product of path p underflowed.
NoUnderflow(d, p) ==
    \A j \in 1..d :
        /\ Exponent(mu, sigma, Z[j][p]) >= ExpMin
        /\ LogPrice(j, p) >= ExpMin

C2_DayZeroIsCurrentPrice ==
    pc \in {"loop", "returned"} =>
        /\ DOMAIN simulations = Days
        /\ DOMAIN simulations[0] = Paths
        /\ \A p \in Paths : simulations[0][p] = current_price

\* Witness C2: a run of three days and two paths has returned, after the loop
\* wrote rows 1 and 2.
C2_Witness ==
    /\ pc = "returned" /\ forecast_days = 3 /\ num_simulations = 2
    /\ DOMAIN Z = {1, 2}
    /\ simulations[2][0] # current_price
    /\ simulations[0][0] = current_price /\ simulations[0][1] = current_price

\* C3: every cell (d, p) with d >= 1 written so far equals cell (d-1, p) times
\* exp((mu - 0.5*sigma^2)/252 + sigma*sqrt(1/252)*Z[d][p]).
C3_GBMRecurrence ==
    pc \in {"loop", "returned"} =>
        \A d \in 1..(t - 1) : \A p \in Paths :
            simulations[d][p] =
                FMul(simulations[d - 1][p],
                     FExp((mu - sigma \div 2) \div 252
                          + ISqrt(sigma \div 252) * Z[d][p]))

\* Witness C3: a returned run with drift and volatility in which two paths
\* took different draws on day 2 and ended at different finite prices.
C3_Witness ==
    /\ pc = "returned" /\ ValidCall /\ forecast_days = 3 /\ num_simulations = 2
    /\ mu # 0 /\ sigma # 0
    /\ Z[2][0] # Z[2][1]
    /\ simulations[2][0].k = "num" /\ simulations[2][1].k = "num"
    /\ simulations[2][0] # simulations[2][1]

\* Stepwise drift-only curve: day d of a path that multiplies by exp(mu*dt)
\* every day.
RECURSIVE DriftCurve(_)
DriftCurve(d) ==
    IF d = 0 THEN current_price
    ELSE FMul(DriftCurve(d - 1), FExp(mu \div 252))

\* C4 (as stated): with sigma = 0 all paths agree on every day and day d holds
\* current_price * exp(mu * dt * d).
C4_ZeroSigmaClosedForm ==
    (pc = "returned" /\ sigma = 0) =>
        \A d \in Days : \A p \in Paths :
            simulations[d][p] = FMul(current_price, FExp((mu \div 252) * d))

\* C4 (amended): with sigma = 0 every path holds, on every day, the same value
\* whatever was drawn: the stepwise product of exp(mu*dt); it equals
\* current_price * exp(mu*dt*d) whenever exp(mu*dt*d) is inside the float64
\* range.
C4_ZeroSigmaDeterministic ==
    (pc = "returned" /\ sigma = 0) =>
        \A d \in Days : \A p \in Paths :
            /\ simulations[d][p] = DriftCurve(d)
            /\ FExp((mu \div 252) * d).k = "num" =>
                  simulations[d][p] = FMul(current_price, FExp((mu \div 252) * d))

\* Witness C4: sigma = 0, non-zero drift, two paths with different draws on
\* both days, equal finite prices on the last day.
C4_Witness ==
    /\ pc = "returned" /\ ValidCall /\ sigma = 0 /\ mu # 0
    /\ forecast_days = 3 /\ num_simulations = 2
    /\ Z[1][0] # Z[1][1] /\ Z[2][0] # Z[2][1]
    /\ simulations[2][0].k = "num"
    /\ simulations[2][0] = simulations[2][1]
    /\ simulations[2][0] # current_price

\* C5: a call with current_price <= 0, num_simulations < 1 or
\* forecast_days < 1 leaves run_simulation with InvalidParameterError (and so
\* never reaches the loop or returns an ensemble).
C5_InvalidParameterRaises ==
    (pc # "init" /\ ~ValidCall) =>
        (pc = "raised" /\ exc = "InvalidParameterError")


\* ===================================================== DataFetcher claims
\* calculate_parameters was the last call and it ran on a fetched frame.
Calibrated == df_op = "calculate_parameters" /\ data.some /\ df_exc # "KeyError"

\* No consecutive pair of the series gives a finite log-return.
NoReturnDefined(close) ==
    \A i \in 2..Len(close) : FLog(FDiv(close[i], close[i - 1])).k # "num"

IsPositiveNum(x) == x.k = "num" /\ x.s = 1

\* C6: calculate_parameters on a fetched series of fewer than 2 prices, or on
\* one none of whose returns is defined, fails with InsufficientDataError.
\* (Stated for the series a successful fetch_data leaves, which has at least
\* one row.)
C6_ShortSeriesRaises ==
    (Calibrated /\ Len(data.v) >= 1
        /\ (Len(data.v) < 2 \/ NoReturnDefined(data.v))) =>
        df_exc = "InsufficientDataError"

\* C7: calculate_parameters on a series holding a negative price, wherever it
\* stands, fails with InvalidPriceError.
C7_NegativePriceRaises ==
    (Calibrated /\ \E i \in DOMAIN data.v : IsNegative(data.v[i])) =>
        df_exc = "InvalidPriceError"

\* C8: for a series of exactly two positive prices [P0, P1] the calibrator
\* returns mu = ln(P1/P0) * 252 and sigma = 0 (a number, not NaN).
C8_TwoPricesZeroSigma ==
    (Calibrated /\ Len(data.v) = 2
        /\ IsPositiveNum(data.v[1]) /\ IsPositiveNum(data.v[2])) =>
        /\ df_exc = "none"
        /\ df_mu.v = LNum((data.v[2].e - data.v[1].e) * 252, 1)
        /\ df_sigma.v.k = "num" /\ df_sigma.v.n = 0

\* C9: for a constant positive series of any length >= 2 the calibrator
\* returns mu = 0 and sigma = 0.
C9_ConstantSeriesZero ==
    (Calibrated /\ Len(data.v) >= 2
        /\ \A i \in DOMAIN data.v : IsPositiveNum(data.v[i]) /\ data.v[i] = data.v[1]) =>
        /\ df_exc = "none"
        /\ df_mu.v.k = "num" /\ df_mu.v.n = 0
        /\ df_sigma.v.k = "num" /\ df_sigma.v.n = 0

RECURSIVE DefinedReturns(_, _)
DefinedReturns(close, i) ==
    IF i > Len(close) THEN << >>
    ELSE IF FLog(FDiv(close[i], close[i - 1])).k = "num"
         THEN <<FLog(FDiv(close[i], close[i - 1]))>> \o DefinedReturns(close, i + 1)
         ELSE DefinedReturns(close, i + 1)

\* C11: when the series holds a zero or missing price but at least one return
\* is defined, the calibrator keeps exactly the defined returns and mu is a
\* finite number, and so is sigma.  (sigma is asked for only when two or more
\* returns are left: what a single return gives is the subject of C8.)
C11_UndefinedReturnsDropped ==
    (Calibrated
        /\ (\E i \in DOMAIN data.v : data.v[i].k \in {"zero", "nan"})
        /\ DefinedReturns(data.v, 2) # << >>) =>
        /\ returns.v = DefinedReturns(data.v, 2)
        /\ df_mu.v.k = "num"
        /\ Len(returns.v) >= 2 => df_sigma.v.k = "num"


\* ------------------------------------------- claims on the simulator, II

\* C17: with forecast_days = 1 the ensemble has exactly one day, row 0, which
\* holds current_price for every requested path, and no random number is drawn.
C17_SingleDayNoDraw ==
    (pc \in {"loop", "returned"} /\ forecast_days = 1) =>
        /\ DOMAIN simulations = {0}
        /\ DOMAIN simulations[0] = Paths
        /\ \A p \in Paths : simulations[0][p] = current_price
        /\ ndraws = 0
        /\ DOMAIN Z = {}

\* Witness C17: a one-day run over two paths has returned.
C17_Witness ==
    /\ pc = "returned" /\ ValidCall
    /\ forecast_days = 1 /\ num_simulations = 2
    /\ ndraws = 0

\* C18: a completed run has drawn exactly num_paths * (forecast_days - 1)
\* numbers: one vector of num_paths draws for each day 1..forecast_days-1, and
\* cell (d, p) is built from its own draw Z[d][p] and from no other.
C18_OneDrawPerCell ==
    pc \in {"loop", "returned"} =>
        /\ ndraws = num_simulations * (t - 1)
        /\ DOMAIN Z = 1..(t - 1)
        /\ \A d \in DOMAIN Z :
            /\ DOMAIN Z[d] = Paths
            /\ \A p \in Paths :
                simulations[d][p] = NextPrice(simulations[d - 1][p], mu, sigma, Z[d][p])
        /\ pc = "returned" =>
            /\ t = forecast_days
            /\ ndraws = num_simulations * (forecast_days - 1)

\* Witness C18: a three-day run over two paths has returned after four draws,
\* the two paths having drawn differently on day 1.
C18_Witness ==
    /\ pc = "returned" /\ ValidCall
    /\ forecast_days = 3 /\ num_simulations = 2
    /\ ndraws = 4
    /\ Z[1][0] # Z[1][1]


\* =========================================================== ResultAnalyzer
\* ------------------------------------------------------ analyzer: operators
\* Largest ensemble handed to the analyzer: paths and days.
MaxAnPaths == 3
MaxAnDays == 2

\* Prices of the ensemble cells, in whole currency units.
AnPrices == {1, 3}

\* The arrays run_simulation can return: days x paths, at least one of each,
\* row 0 holding the same price for every path.
Ensembles ==
    UNION {{e \in [0..(d - 1) -> [0..(n - 1) -> AnPrices]] :
                \A p \in 0..(n - 1) : e[0][p] = e[0][0]} :
           d \in 1..MaxAnDays, n \in 1..MaxAnPaths}

Abs(x) == IF x < 0 THEN -x ELSE x
Sign(x) == IF x < 0 THEN -1 ELSE IF x = 0 THEN 0 ELSE 1

RECURSIVE GCD(_, _)
GCD(a, b) == IF b = 0 THEN a ELSE GCD(b, a % b)

\* The fraction num/den in lowest terms (den > 0).
Frac(num, den) ==
    LET g == GCD(Abs(num), den)
    IN Rat(num \div g, den \div g)

RECURSIVE Pow(_, _)
Pow(x, k) == IF k = 0 THEN 1 ELSE x * Pow(x, k - 1)

\* simulations.shape[0], simulations.shape[1], simulations[-1]
NumDays(ens) == Cardinality(DOMAIN ens)
NumPaths(ens) == Cardinality(DOMAIN ens[0])

\* Variant: the statistics read the first row instead of the last.
FinalPricesFirstRow(ens) == ens[0]

\* self.final_prices = simulations[-1]
FinalPrices(ens) == ens[NumDays(ens) - 1]

RowLen(row) == Cardinality(DOMAIN row)

\* f[0] + ... + f[n-1]
RECURSIVE SumOver(_, _)
SumOver(f, n) == IF n = 0 THEN 0 ELSE f[n - 1] + SumOver(f, n - 1)

RowSum(row) == SumOver(row, RowLen(row))

\* np.mean(row)
NpMean(row) == Frac(RowSum(row), RowLen(row))

\* ((row - mean) ** k).mean(): with n = len(row), the deviation of x from the
\* mean is (n*x - sum)/n.
CentralMoment(row, k) ==
    LET n == RowLen(row)
        dev == [p \in DOMAIN row |-> Pow(n * row[p] - RowSum(row), k)]
    IN Frac(SumOver(dev, n), Pow(n, k + 1))

\* np.std(row) squared: the population variance (ddof = 0).
NpVar(row) == CentralMoment(row, 2)

\* Variant: the row is interpolated in the order of the paths, unsorted.
SortedNot(row) == row

\* The row in ascending order, as np.percentile and np.median arrange it.
Sorted(row) ==
    [i \in DOMAIN row |->
        CHOOSE v \in {row[p] : p \in DOMAIN row} :
            /\ Cardinality({p \in DOMAIN row : row[p] < v}) <= i
            /\ Cardinality({p \in DOMAIN row : row[p] <= v}) > i]

\* np.percentile(row, q): linear interpolation between the two order
\* statistics around position (n-1)*q/100.
NpPercentile(row, q) ==
    LET a == Sorted(row)
        n == RowLen(row)
        h == (n - 1) * q
        lo == h \div 100
        hi == IF lo + 1 < n THEN lo + 1 ELSE lo
    IN Frac(100 * a[lo] + (h % 100) * (a[hi] - a[lo]), 100)

\* np.median(row)
NpMedian(row) ==
    LET a == Sorted(row)
        n == RowLen(row)
    IN IF n % 2 = 1 THEN Frac(a[(n - 1) \div 2], 1)
       ELSE Frac(a[n \div 2 - 1] + a[n \div 2], 2)

NpMin(row) == Frac(CHOOSE v \in {row[p] : p \in DOMAIN row} : \A p \in DOMAIN row : v <= row[p], 1)
NpMax(row) == Frac(CHOOSE v \in {row[p] : p \in DOMAIN row} : \A p \in DOMAIN row : v >= row[p], 1)

\* The results dictionary of calculate_statistics (std_dev carried as its square).
Statistics(row, price) ==
    [current_price |-> Frac(price, 1),
     mean_price |-> NpMean(row),
     median_price |-> NpMedian(row),
     std_dev |-> NpVar(row),
     min_price |-> NpMin(row),
     max_price |-> NpMax(row),
     percentile_5 |-> NpPercentile(row, 5),
     percentile_25 |-> NpPercentile(row, 25),
     percentile_75 |-> NpPercentile(row, 75),
     percentile_95 |-> NpPercentile(row, 95)]

\* Variant: Python's float division, which raises ZeroDivisionError.
PyDivide(a, b) ==
    IF a.k = "nan" \/ b.k = "nan" \/ (a.k = "inf" /\ b.k = "inf") THEN RNaN
    ELSE IF b.k = "inf" THEN Frac(0, 1)
    ELSE IF a.k = "inf" THEN RInf(IF b.n < 0 THEN -a.n ELSE a.n)
    ELSE IF b.n = 0 THEN [k |-> "ZeroDivisionError", n |-> 0, d |-> 1]
    ELSE Frac(a.n * b.d * Sign(b.n), a.d * Abs(b.n))

\* a / b on numpy float64 scalars: a zero divisor gives an infinity, or NaN
\* for 0/0, with a warning and no exception.
NpDivide(a, b) ==
    IF a.k = "nan" \/ b.k = "nan" \/ (a.k = "inf" /\ b.k = "inf") THEN RNaN
    ELSE IF b.k = "inf" THEN Frac(0, 1)
    ELSE IF a.k = "inf" THEN RInf(IF b.n < 0 THEN -a.n ELSE a.n)
    ELSE IF b.n = 0 THEN (IF a.n = 0 THEN RNaN ELSE RInf(Sign(a.n)))
    ELSE Frac(a.n * b.d * Sign(b.n), a.d * Abs(b.n))

\* a + c and a * c for an integer c > 0, and abs(a); what is not a number
\* stays what it is (an infinity keeps or loses its sign).
AddInt(a, c) == IF a.k = "num" THEN Frac(a.n + c * a.d, a.d) ELSE a
Scale(a, c) == IF a.k = "num" THEN Frac(a.n * c, a.d) ELSE a
RAbs(a) ==
    IF a.k = "num" THEN Frac(Abs(a.n), a.d)
    ELSE IF a.k = "inf" THEN RInf(1) ELSE a

\* a <= b on numbers (a comparison with NaN is false).
RLe(a, b) == a.k = "num" /\ b.k = "num" /\ a.n * b.d <= b.n * a.d

\* ((percentile / current_price) - 1) * 100
PctFromCurrent(pctl, price) == Scale(AddInt(NpDivide(pctl, price), -1), 100)

\* abs(gain_potential / loss_risk)
RiskReward(res) ==
    RAbs(NpDivide(PctFromCurrent(res.percentile_95, res.current_price),
                  PctFromCurrent(res.percentile_5, res.current_price)))

\* ((final - mean) ** 3).mean() / std_dev ** 3, carried as sign * square: the
\* square of the third moment over the cube of the variance.
Skewness(row, res) ==
    LET m3 == CentralMoment(row, 3)
    IN NpDivide(Frac(Sign(m3.n) * m3.n * m3.n, m3.d * m3.d),
                Frac(Pow(res.std_dev.n, 3), Pow(res.std_dev.d, 3)))

\* ((final - mean) ** 4).mean() / std_dev ** 4 - 3
Kurtosis(row, res) ==
    AddInt(NpDivide(CentralMoment(row, 4),
                    Frac(Pow(res.std_dev.n, 2), Pow(res.std_dev.d, 2))), -3)

\* np.percentile(self.simulations, q, axis=1) for q = 5, 25, 75, 95.
Bands(ens) ==
    [d \in DOMAIN ens |->
        [p5 |-> NpPercentile(ens[d], 5), p25 |-> NpPercentile(ens[d], 25),
         p75 |-> NpPercentile(ens[d], 75), p95 |-> NpPercentile(ens[d], 95)]]

\* Variant: np.percentile called with overwrite_input=True, which reorders
\* the rows of its input in place.
AfterPercentileOverwritten(ens) == [d \in DOMAIN ens |-> Sorted(ens[d])]

\* The array after np.percentile, np.median and the other reductions have
\* read it: they work on copies and leave their input as it is.
AfterPercentile(ens) == ens

\* self.simulations.mean(axis=1)
MeanPath(ens) == [d \in DOMAIN ens |-> NpMean(ens[d])]

\* Variant: the mid-horizon day rounded up.
MidPointRoundedUp(days) == (days + 1) \div 2

\* mid_point = self.forecast_days // 2
MidPoint(days) == days \div 2

\* np.sum(row > x) and np.sum(row <= x) for a fraction x.
CountAbove(row, x) == Cardinality({p \in DOMAIN row : row[p] * x.d > x.n})
CountAtOrBelow(row, x) == Cardinality({p \in DOMAIN row : row[p] * x.d <= x.n})

\* Variant: the one-std range taken without its end points.
CountWithinStdOpen(row, mean, var) ==
    Cardinality({p \in DOMAIN row :
        (row[p] * mean.d - mean.n) * (row[p] * mean.d - mean.n) * var.d
            < var.n * mean.d * mean.d})

\* np.sum((row >= mean - std) & (row <= mean + std)), the standard deviation
\* being carried as its square: |v - mean| <= std.
CountWithinStd(row, mean, var) ==
    Cardinality({p \in DOMAIN row :
        (row[p] * mean.d - mean.n) * (row[p] * mean.d - mean.n) * var.d
            <= var.n * mean.d * mean.d})

\* count / self.num_simulations * 100
PctOf(count, n) == Frac(count * 100, n)

\* np.histogram(row, bins=100): the range is [min, max], widened by 0.5 on
\* both sides when min = max; HistRange2 is the pair of twice its ends.
HistBins == 100
HistRange2(row) ==
    LET mn == NpMin(row).n
        mx == NpMax(row).n
    IN IF mn = mx THEN <<2 * mn - 1, 2 * mx + 1>> ELSE <<2 * mn, 2 * mx>>

\* bin_edges[i], i in 0..100: equally spaced over the range.
BinEdge(range2, i) ==
    Frac(HistBins * range2[1] + i * (range2[2] - range2[1]), 2 * HistBins)

\* The bin a value falls into; the last bin includes the upper end.
BinOf(range2, v) ==
    IF 2 * v = range2[2] THEN HistBins - 1
    ELSE ((2 * v - range2[1]) * HistBins) \div (range2[2] - range2[1])

\* hist: the count of each bin.
HistCounts(row) ==
    LET range2 == HistRange2(row)
        bin == [p \in DOMAIN row |-> BinOf(range2, row[p])]
    IN [i \in 0..(HistBins - 1) |-> Cardinality({p \in DOMAIN row : bin[p] = i})]

\* Variant: of several highest bins the last one.
ArgMaxLast(hist) ==
    CHOOSE i \in DOMAIN hist :
        /\ \A k \in DOMAIN hist : hist[k] <= hist[i]
        /\ \A k \in DOMAIN hist : k > i => hist[k] < hist[i]

\* hist.argmax(): the first index of the highest count.
ArgMax(hist) ==
    CHOOSE i \in DOMAIN hist :
        /\ \A k \in DOMAIN hist : hist[k] <= hist[i]
        /\ \A k \in DOMAIN hist : k < i => hist[k] < hist[i]

\* most_likely_range = (bin_edges[idx], bin_edges[idx + 1])
ModalRange(row) ==
    LET range2 == HistRange2(row)
        idx == ArgMax(HistCounts(row))
    IN [lo |-> BinEdge(range2, idx), hi |-> BinEdge(range2, idx + 1)]

\* What each explanation puts into its text.
TextOnly == [NoOut EXCEPT !.text = TRUE]
PathsOut(ens, price) ==
    [TextOnly EXCEPT !.paths_above = CountAbove(FinalPrices(ens), Frac(price, 1)),
                     !.paths_below = CountAtOrBelow(FinalPrices(ens), Frac(price, 1)),
                     !.mean_path = MeanPath(ens)]
ConfidenceOut(ens) ==
    [TextOnly EXCEPT !.bands = Bands(ens),
                     !.mean_path = MeanPath(ens),
                     !.mid_point = MidPoint(NumDays(ens))]
DistributionOut(row, res) ==
    [TextOnly EXCEPT !.skewness = Skewness(row, res),
                     !.kurtosis = Kurtosis(row, res),
                     !.ratio = RiskReward(res),
                     !.above_current = PctOf(CountAbove(row, res.current_price), RowLen(row)),
                     !.above_mean = PctOf(CountAbove(row, res.mean_price), RowLen(row)),
                     !.within_std = PctOf(CountWithinStd(row, res.mean_price, res.std_dev),
                                          RowLen(row)),
                     !.modal = ModalRange(row)]
FullOut(ens, res) ==
    [DistributionOut(FinalPrices(ens), res) EXCEPT
        !.bands = Bands(ens),
        !.mean_path = MeanPath(ens),
        !.mid_point = MidPoint(NumDays(ens)),
        !.paths_above = CountAbove(FinalPrices(ens), res.current_price),
        !.paths_below = CountAtOrBelow(FinalPrices(ens), res.current_price)]

\* The exception a computed text stands for: IndexError if the mid-horizon
\* day is not a row of the bands, ZeroDivisionError if a division raised.
RaisedIn(out) ==
    IF out.bands # << >> /\ out.mid_point \notin DOMAIN out.bands THEN "IndexError"
    ELSE IF \E f \in {"skewness", "kurtosis", "ratio"} : out[f].k = "ZeroDivisionError"
    THEN "ZeroDivisionError" ELSE "none"


\* -------------------------------------------------------- analyzer: actions
\* The simulator and the DataFetcher at rest.
SimIdle ==
    /\ pc = "init"
    /\ current_price = Zero
    /\ mu = 0
    /\ sigma = 0
    /\ num_simulations = 0
    /\ forecast_days = 0
    /\ simulations = << >>
    /\ t = 0
    /\ Z = << >>
    /\ ndraws = 0
    /\ exc = "none"

DfIdle ==
    /\ historical_days = TradingDays
    /\ data = NoData
    /\ returns = NoData
    /\ df_mu = NoValue
    /\ df_sigma = NoValue
    /\ df_op = "none"
    /\ df_exc = "none"

AnInit == SimIdle /\ DfIdle /\ AnIdle /\ PipeIdle /\ TfIdle

\* run_simulation hands its array to the caller.
SimulationReturned ==
    /\ ~ensemble.some
    /\ \E e \in Ensembles : ensemble' = Some(e)
    /\ UNCHANGED <<an_built, an_current_price, results, an_op, an_exc, an_out,
                   simvars, dfvars, pipevars, tfvars>>

\* ResultAnalyzer(simulations, current_price, ticker) with simulations None:
\* simulations[-1] raises TypeError and no analyzer comes to exist.
AnalyzerNewNoEnsemble ==
    /\ ~an_built
    /\ ~ensemble.some
    /\ an_op' = "__init__"
    /\ an_exc' = "TypeError"
    /\ UNCHANGED <<ensemble, an_built, an_current_price, results, an_out,
                   simvars, dfvars, pipevars, tfvars>>

\* ResultAnalyzer(simulations, current_price, ticker): the caller passes the
\* price the simulation started from.
AnalyzerNew ==
    /\ ~an_built
    /\ ensemble.some
    /\ an_built' = TRUE
    /\ an_current_price' = ensemble.v[0][0]
    /\ results' = NoResults
    /\ an_op' = "__init__"
    /\ an_exc' = "none"
    /\ an_out' = NoOut
    /\ UNCHANGED <<ensemble, simvars, dfvars, pipevars, tfvars>>

\* calculate_statistics()
CalculateStatistics ==
    /\ an_built
    /\ results' = Some(Statistics(FinalPrices(ensemble.v), an_current_price))
    /\ ensemble' = Some(AfterPercentile(ensemble.v))
    /\ an_op' = "calculate_statistics"
    /\ an_exc' = "none"
    /\ an_out' = NoOut
    /\ UNCHANGED <<an_built, an_current_price, simvars, dfvars, pipevars, tfvars>>

\* _explain_simulation_paths(): uses the array and current_price only.
ExplainSimulationPaths ==
    /\ an_built
    /\ an_op' = "_explain_simulation_paths"
    /\ an_exc' = "none"
    /\ an_out' = PathsOut(ensemble.v, an_current_price)
    /\ UNCHANGED <<ensemble, an_built, an_current_price, results, simvars, dfvars, pipevars, tfvars>>

\* _explain_confidence_intervals(): uses the array and current_price only.
ExplainConfidenceIntervals ==
    /\ an_built
    /\ ensemble' = Some(AfterPercentile(ensemble.v))
    /\ an_op' = "_explain_confidence_intervals"
    /\ an_exc' = RaisedIn(ConfidenceOut(ensemble.v))
    /\ an_out' = IF RaisedIn(ConfidenceOut(ensemble.v)) = "none"
                 THEN ConfidenceOut(ensemble.v) ELSE NoOut
    /\ UNCHANGED <<an_built, an_current_price, results, simvars, dfvars, pipevars, tfvars>>

\* _explain_price_distribution(): self.results['mean_price'] raises TypeError
\* while results is None.
ExplainPriceDistribution ==
    /\ an_built
    /\ an_op' = "_explain_price_distribution"
    /\ IF ~results.some
       THEN an_exc' = "TypeError" /\ an_out' = NoOut
       ELSE LET out == DistributionOut(FinalPrices(ensemble.v), results.v)
            IN /\ an_exc' = RaisedIn(out)
               /\ an_out' = IF RaisedIn(out) = "none" THEN out ELSE NoOut
    /\ UNCHANGED <<ensemble, an_built, an_current_price, results, simvars, dfvars, pipevars, tfvars>>

\* _explain_historical_prices(): uses the array only.
ExplainHistoricalPrices ==
    /\ an_built
    /\ an_op' = "_explain_historical_prices"
    /\ an_exc' = "none"
    /\ an_out' = TextOnly
    /\ UNCHANGED <<ensemble, an_built, an_current_price, results, simvars, dfvars, pipevars, tfvars>>

\* print_full_analysis(): prints a message and returns while results is None,
\* prints the four explanations otherwise.
PrintFullAnalysis ==
    /\ an_built
    /\ an_op' = "print_full_analysis"
    /\ IF ~results.some
       THEN an_exc' = "none" /\ an_out' = NoOut /\ UNCHANGED ensemble
       ELSE LET out == FullOut(ensemble.v, results.v)
            IN /\ an_exc' = RaisedIn(out)
               /\ an_out' = IF RaisedIn(out) = "none" THEN out ELSE NoOut
               /\ ensemble' = Some(AfterPercentile(ensemble.v))
    /\ UNCHANGED <<an_built, an_current_price, results, simvars, dfvars, pipevars, tfvars>>

\* Visualizer.plot_simulation_paths(num_paths): np.random.choice without
\* replacement raises ValueError when num_paths exceeds the number of paths.
PlotSimulationPaths ==
    /\ ensemble.some
    /\ an_op' = "plot_simulation_paths"
    /\ \E k \in 1..MaxAnPaths :
        an_exc' = IF k > NumPaths(ensemble.v) THEN "ValueError" ELSE "none"
    /\ an_out' = NoOut
    /\ UNCHANGED <<ensemble, an_built, an_current_price, results, simvars, dfvars, pipevars, tfvars>>

\* Visualizer.plot_confidence_intervals()
PlotConfidenceIntervals ==
    /\ ensemble.some
    /\ ensemble' = Some(AfterPercentile(ensemble.v))
    /\ an_op' = "plot_confidence_intervals"
    /\ an_exc' = "none"
    /\ an_out' = NoOut
    /\ UNCHANGED <<an_built, an_current_price, results, simvars, dfvars, pipevars, tfvars>>

\* Visualizer.plot_price_distribution()
PlotPriceDistribution ==
    /\ ensemble.some
    /\ ensemble' = Some(AfterPercentile(ensemble.v))
    /\ an_op' = "plot_price_distribution"
    /\ an_exc' = "none"
    /\ an_out' = NoOut
    /\ UNCHANGED <<an_built, an_current_price, results, simvars, dfvars, pipevars, tfvars>>

\* Visualizer.plot_historical_prices(): draws the historical frame.
PlotHistoricalPrices ==
    /\ ensemble.some
    /\ an_op' = "plot_historical_prices"
    /\ an_exc' = "none"
    /\ an_out' = NoOut
    /\ UNCHANGED <<ensemble, an_built, an_current_price, results, simvars, dfvars, pipevars, tfvars>>

\* Visualizer.generate_all_plots(num_paths): the four plots in turn; the
\* first one's ValueError ends the call.
GenerateAllPlots ==
    /\ ensemble.some
    /\ an_op' = "generate_all_plots"
    /\ \E k \in 1..MaxAnPaths :
        IF k > NumPaths(ensemble.v)
        THEN an_exc' = "ValueError" /\ UNCHANGED ensemble
        ELSE an_exc' = "none" /\ ensemble' = Some(AfterPercentile(ensemble.v))
    /\ an_out' = NoOut
    /\ UNCHANGED <<an_built, an_current_price, results, simvars, dfvars, pipevars, tfvars>>

AnNext ==
    \/ SimulationReturned
    \/ AnalyzerNewNoEnsemble
    \/ AnalyzerNew
    \/ CalculateStatistics
    \/ ExplainSimulationPaths
    \/ ExplainConfidenceIntervals
    \/ ExplainPriceDistribution
    \/ ExplainHistoricalPrices
    \/ PrintFullAnalysis
    \/ PlotSimulationPaths
    \/ PlotConfidenceIntervals
    \/ PlotPriceDistribution
    \/ PlotHistoricalPrices
    \/ GenerateAllPlots

AnSpec == AnInit /\ [][AnNext]_vars


\* ------------------------------------------------- claims on the analyzer
ExplainOps == {"_explain_simulation_paths", "_explain_confidence_intervals",
               "_explain_price_distribution", "_explain_historical_prices"}

\* C12: a request to analyze made before an ensemble exists (construction), or
\* before the statistics have been computed (any _explain_* method,
\* print_full_analysis), fails with an error.  (The claim names the error
\* NotCalibratedError; the code has no such class, and the property asks only
\* that the request fails at all.)
C12_EarlyRequestFails ==
    /\ (an_op = "__init__" /\ ~ensemble.some) => an_exc # "none"
    /\ (an_op \in ExplainOps \cup {"print_full_analysis"} /\ ~results.some) =>
            an_exc # "none"


\* C13: the per-day bands computed from the ensemble cover every day and are
\* ordered on each day: p5 <= p25 <= p75 <= p95.
C13_BandsOrdered ==
    (an_op \in {"_explain_confidence_intervals", "print_full_analysis"}
        /\ an_out.text) =>
        /\ an_out.bands # << >> => DOMAIN an_out.bands = DOMAIN ensemble.v
        /\ an_op = "_explain_confidence_intervals" => an_out.bands # << >>
        /\ \A d \in DOMAIN an_out.bands :
            /\ RLe(an_out.bands[d].p5, an_out.bands[d].p25)
            /\ RLe(an_out.bands[d].p25, an_out.bands[d].p75)
            /\ RLe(an_out.bands[d].p75, an_out.bands[d].p95)

\* Witness C13: bands were computed for a two-day ensemble whose last row is
\* not in ascending order, and the four bands of that day are all different.
C13_Witness ==
    /\ an_op = "_explain_confidence_intervals" /\ an_out.text
    /\ NumDays(ensemble.v) = 2 /\ NumPaths(ensemble.v) = 2
    /\ ensemble.v[1][0] > ensemble.v[1][1]
    /\ an_out.bands[1].p5 # an_out.bands[1].p25
    /\ an_out.bands[1].p25 # an_out.bands[1].p75
    /\ an_out.bands[1].p75 # an_out.bands[1].p95


\* C14: for an ensemble of one path the statistics have std_dev = 0, and the
\* mean, the median, the minimum, the maximum and the four percentiles all
\* equal the single final value.
C14_SinglePathStatistics ==
    (results.some /\ NumPaths(ensemble.v) = 1) =>
        LET x == Frac(ensemble.v[NumDays(ensemble.v) - 1][0], 1)
        IN /\ results.v.std_dev = Frac(0, 1)
           /\ results.v.mean_price = x
           /\ results.v.median_price = x
           /\ results.v.min_price = x
           /\ results.v.max_price = x
           /\ results.v.percentile_5 = x
           /\ results.v.percentile_25 = x
           /\ results.v.percentile_75 = x
           /\ results.v.percentile_95 = x

\* Witness C14: statistics exist for a one-path, two-day ensemble whose final
\* value differs from the starting price.
C14_Witness ==
    /\ results.some /\ an_op = "calculate_statistics"
    /\ NumPaths(ensemble.v) = 1 /\ NumDays(ensemble.v) = 2
    /\ ensemble.v[1][0] # ensemble.v[0][0]
    /\ results.v.mean_price = Frac(ensemble.v[1][0], 1)


\* The distribution analysis has just been asked for with statistics present.
DistributionAsked ==
    /\ an_op \in {"_explain_price_distribution", "print_full_analysis"}
    /\ results.some

\* C15: when the 5th percentile of the final prices equals current_price (a
\* downside figure of exactly zero), the distribution analysis does not raise:
\* its text is produced, with a risk/reward ratio that is infinite or NaN.
C15_ZeroDownsideNoRaise ==
    (DistributionAsked /\ results.v.percentile_5 = results.v.current_price) =>
        /\ an_exc = "none"
        /\ an_out.text
        /\ an_out.ratio.k \in {"inf", "nan"}

\* Witness C15: the analysis was produced for final prices whose 5th
\* percentile is the current price and whose 95th is above it: the ratio is
\* infinite.
C15_Witness ==
    /\ an_op = "_explain_price_distribution" /\ results.some
    /\ results.v.percentile_5 = results.v.current_price
    /\ results.v.percentile_95 # results.v.current_price
    /\ an_exc = "none" /\ an_out.text
    /\ an_out.ratio = RInf(1)

\* C16: when the standard deviation of the final prices is zero, the
\* distribution analysis either raises or puts defined numbers for skewness
\* and excess kurtosis into its text.
C16_ZeroStdDefinedOrRaises ==
    (DistributionAsked /\ results.v.std_dev = Frac(0, 1)) =>
        \/ an_exc # "none"
        \/ an_out.skewness.k = "num" /\ an_out.kurtosis.k = "num"


\* C20: once run_simulation has returned the ensemble, no step of the
\* analyzer or of the visualizer changes any cell of it.
C20_EnsembleReadOnly == [][ensemble.some => ensemble' = ensemble]_vars

\* Witness C20: statistics, the full analysis and then all plots have run on
\* a three-path ensemble whose last row is not in ascending order.
C20_Witness ==
    /\ an_op = "generate_all_plots" /\ an_exc = "none"
    /\ results.some
    /\ NumPaths(ensemble.v) = 3 /\ NumDays(ensemble.v) = 2
    /\ ensemble.v[1][0] > ensemble.v[1][1]


\* ================================================ main() and run_prediction()
\* Variant: calculate_parameters called only after the simulation.
MainStepsCalibrateLate ==
    <<"ticker", "fetch", "simulate", "calibrate", "statistics", "explanations",
      "plots">>

\* The calls of main() between its try and its last statement, in program
\* order.  "explanations" is print_full_analysis, "plots" generate_all_plots.
MainSteps ==
    <<"ticker", "fetch", "calibrate", "simulate", "statistics", "explanations",
      "plots">>

\* The calls of run_prediction() in program order.  "plots" is
\* generate_plots_for_web, "explanations" the four _explain_* calls,
\* "response" the summary statistics, the company info and the result dict.
AppSteps ==
    <<"ticker", "fetch", "calibrate", "simulate", "statistics", "plots",
      "explanations", "response">>

Steps(entry) == IF entry = "main" THEN MainSteps ELSE AppSteps

\* The call the running pipeline makes next, "none" once it has ended.
NextStep ==
    IF pipe_status = "running" /\ Len(pipe_log) < Len(Steps(pipe_entry))
    THEN Steps(pipe_entry)[Len(pipe_log) + 1]
    ELSE "none"

\* Variant: no except clause; an exception leaves the function.
StatusAfterUncaught(completed) ==
    IF ~completed THEN "propagated"
    ELSE IF Len(pipe_log) + 1 = Len(Steps(pipe_entry)) THEN "finished"
    ELSE "running"

\* Status after the next call: an exception is caught by the except clause,
\* which ends the run; after the last call the function returns.
StatusAfter(completed) ==
    IF ~completed THEN "error"
    ELSE IF Len(pipe_log) + 1 = Len(Steps(pipe_entry)) THEN "finished"
    ELSE "running"

\* The keys of the dictionaries run_prediction returns.
SuccessKeys ==
    {"success", "ticker", "company_full_name", "results", "summary", "plots",
     "explanations", "mu", "sigma"}
FailureKeys == {"success", "error"}

\* What the function has returned once it ended with the given status:
\* run_prediction returns the result dictionary after its last call and a
\* failure dictionary from the no-ticker branch and from the except clause;
\* main returns nothing.
Response(entry, status) ==
    IF entry # "run_prediction" THEN NoResponse
    ELSE IF status = "finished"
         THEN [returned |-> TRUE, success |-> TRUE, keys |-> SuccessKeys]
    ELSE IF status \in {"no_ticker", "error"}
         THEN [returned |-> TRUE, success |-> FALSE, keys |-> FailureKeys]
    ELSE NoResponse

PipeInit ==
    /\ SimIdle
    /\ DfIdle
    /\ AnIdle
    /\ TfIdle
    /\ pipe_entry \in {"main", "run_prediction"}
    /\ pipe_log = << >>
    /\ pipe_status = "running"
    /\ pipe_response = NoResponse

\* main(): an empty company name is answered with a message and a return.
PipeNoInput ==
    /\ pipe_entry = "main"
    /\ pipe_status = "running"
    /\ pipe_log = << >>
    /\ pipe_status' = "no_input"
    /\ pipe_response' = Response(pipe_entry, pipe_status')
    /\ UNCHANGED <<pipe_entry, pipe_log, simvars, dfvars, anvars, tfvars>>

\* TickerFinder() and find_ticker(company_name): a ticker, None (the function
\* returns), or an exception (no API key).
PipeTicker ==
    /\ NextStep = "ticker"
    /\ pipe_log' = Append(pipe_log, "ticker")
    /\ \E outcome \in {"found", "none", "raised"} :
        pipe_status' = IF outcome = "found" THEN StatusAfter(TRUE)
                       ELSE IF outcome = "none" THEN "no_ticker"
                       ELSE "error"
    /\ pipe_response' = Response(pipe_entry, pipe_status')
    /\ UNCHANGED <<pipe_entry, simvars, dfvars, anvars, tfvars>>

\* DataFetcher(ticker).fetch_data() (and print_summary() in main): the
\* provider raises, answers with an empty frame (ValueError after self.data
\* was assigned) or answers with rows.
PipeFetch ==
    /\ NextStep = "fetch"
    /\ pipe_log' = Append(pipe_log, "fetch")
    /\ df_op' = "fetch_data"
    /\ \/ /\ df_exc' = "Exception"
          /\ pipe_status' = StatusAfter(FALSE)
          /\ UNCHANGED data
       \/ \E series \in ProviderSeries :
            /\ data' = Some(TailRows(series, historical_days))
            /\ df_exc' = IF EmptyFrame(series) THEN "ValueError" ELSE "none"
            /\ pipe_status' = StatusAfter(~EmptyFrame(series))
    /\ pipe_response' = Response(pipe_entry, pipe_status')
    /\ UNCHANGED <<pipe_entry, historical_days, returns, df_mu, df_sigma,
                   simvars, anvars, tfvars>>

\* fetcher.calculate_parameters() on the fetched frame.
PipeCalibrate ==
    /\ NextStep = "calibrate"
    /\ pipe_log' = Append(pipe_log, "calibrate")
    /\ returns' = Some(LogReturns(data.v))
    /\ df_mu' = Some(AnnualizedDrift(LogReturns(data.v)))
    /\ df_sigma' = Some(AnnualizedVarianceOf(LogReturns(data.v)))
    /\ df_op' = "calculate_parameters"
    /\ df_exc' = "none"
    /\ pipe_status' = StatusAfter(TRUE)
    /\ pipe_response' = Response(pipe_entry, pipe_status')
    /\ UNCHANGED <<pipe_entry, historical_days, data, simvars, anvars, tfvars>>

\* MonteCarloSimulator(get_current_price(), mu, sigma) and run_simulation
\* with the default counts: the fetcher is read.  (What the run computes is
\* the subject of SimSpec.)
PipeSimulate ==
    /\ NextStep = "simulate"
    /\ pipe_log' = Append(pipe_log, "simulate")
    /\ pipe_status' = StatusAfter(TRUE)
    /\ pipe_response' = Response(pipe_entry, pipe_status')
    /\ UNCHANGED <<pipe_entry, simvars, dfvars, anvars, tfvars>>

\* ResultAnalyzer(simulations, get_current_price(), ticker) and
\* calculate_statistics().  (What they compute is the subject of AnSpec.)
PipeStatistics ==
    /\ NextStep = "statistics"
    /\ pipe_log' = Append(pipe_log, "statistics")
    /\ pipe_status' = StatusAfter(TRUE)
    /\ pipe_response' = Response(pipe_entry, pipe_status')
    /\ UNCHANGED <<pipe_entry, simvars, dfvars, anvars, tfvars>>

\* The explanations: they return, or raise (np.histogram refuses final prices
\* that are not finite).
PipeExplanations ==
    /\ NextStep = "explanations"
    /\ pipe_log' = Append(pipe_log, "explanations")
    /\ \E completed \in BOOLEAN : pipe_status' = StatusAfter(completed)
    /\ pipe_response' = Response(pipe_entry, pipe_status')
    /\ UNCHANGED <<pipe_entry, simvars, dfvars, anvars, tfvars>>

\* Visualizer(simulations, fetcher.data, ticker) and its plots: they are
\* drawn and saved, or a call raises.
PipePlots ==
    /\ NextStep = "plots"
    /\ pipe_log' = Append(pipe_log, "plots")
    /\ \E completed \in BOOLEAN : pipe_status' = StatusAfter(completed)
    /\ pipe_response' = Response(pipe_entry, pipe_status')
    /\ UNCHANGED <<pipe_entry, simvars, dfvars, anvars, tfvars>>

\* run_prediction(): get_summary_statistics(), the provider's company info
\* and the result dictionary, or an exception on the way.
PipeResponse ==
    /\ NextStep = "response"
    /\ pipe_log' = Append(pipe_log, "response")
    /\ \E completed \in BOOLEAN : pipe_status' = StatusAfter(completed)
    /\ pipe_response' = Response(pipe_entry, pipe_status')
    /\ UNCHANGED <<pipe_entry, simvars, dfvars, anvars, tfvars>>

PipeNext ==
    \/ PipeNoInput
    \/ PipeTicker
    \/ PipeFetch
    \/ PipeCalibrate
    \/ PipeSimulate
    \/ PipeStatistics
    \/ PipeExplanations
    \/ PipePlots
    \/ PipeResponse

PipeSpec == PipeInit /\ [][PipeNext]_vars

\* ------------------------------------------------- claims on the pipeline
\* Stage of a call in the order of the claim.
StageRank(step) ==
    CASE step = "ticker" -> 1
      [] step = "fetch" -> 2
      [] step = "calibrate" -> 3
      [] step = "simulate" -> 4
      [] step = "statistics" -> 5
      [] step \in {"explanations", "plots"} -> 6
      [] OTHER -> 7

\* Every call started so far came after all calls of earlier stages, the
\* calls before it having completed (only the last call of the log can have
\* failed), and no stage was skipped.
StagesInOrder ==
    \A i \in 1..Len(pipe_log) :
        /\ \A j \in 1..(i - 1) : StageRank(pipe_log[j]) <= StageRank(pipe_log[i])
        /\ \A r \in 1..(StageRank(pipe_log[i]) - 1) :
            \E j \in 1..(i - 1) : StageRank(pipe_log[j]) = r

\* A call starts only while the pipeline is running; the calls after the
\* calibration leave mu, sigma and the historical frame as they are, and the
\* calibration leaves the frame as it is.
NoBackwardWrite ==
    pipe_log' # pipe_log =>
        /\ pipe_status = "running"
        /\ StageRank(pipe_log'[Len(pipe_log')]) >= 3 => data' = data
        /\ StageRank(pipe_log'[Len(pipe_log')]) > 3 =>
                df_mu' = df_mu /\ df_sigma' = df_sigma

\* C19: in main() and in run_prediction() the stages run in the order ticker,
\* fetch, calibrate, simulate, statistics, explanations/plots; a stage starts
\* only after every earlier stage has completed and never after a failure;
\* no stage after the calibration writes mu, sigma or the historical series.
C19_StagesInOrder == [](StagesInOrder) /\ [][NoBackwardWrite]_vars

\* Witness C19: run_prediction has gone through all its calls on a series
\* that calibrated to finite mu and sigma.
C19_Witness ==
    /\ pipe_entry = "run_prediction" /\ pipe_status = "finished"
    /\ pipe_log = AppSteps
    /\ df_mu.some /\ df_mu.v.k = "num"
    /\ df_sigma.some /\ df_sigma.v.k = "num"


\* Last call the pipeline started ("none" before the first).
LastStep == IF pipe_log = << >> THEN "none" ELSE pipe_log[Len(pipe_log)]

Started(step) == \E i \in 1..Len(pipe_log) : pipe_log[i] = step

\* C21: when the provider answers with an empty series, fetch_data raises
\* ValueError and the pipeline ends in its error outcome with fetch_data as
\* its last call: nothing is calibrated and nothing is simulated.
C21_EmptySeriesIsError ==
    (data.some /\ data.v = << >>) =>
        /\ df_op = "fetch_data" /\ df_exc = "ValueError"
        /\ pipe_status = "error"
        /\ LastStep = "fetch"
        /\ ~Started("calibrate") /\ ~Started("simulate")
        /\ ~returns.some /\ ~df_mu.some /\ ~df_sigma.some

\* Witness C21: run_prediction has ended in error on an empty answer.
C21_Witness ==
    /\ pipe_entry = "run_prediction"
    /\ data.some /\ data.v = << >>
    /\ df_exc = "ValueError"
    /\ pipe_status = "error"
    /\ pipe_log = <<"ticker", "fetch">>


\* ============================================================= TickerFinder
\* Texts are sequences of one-character strings; the response of the lookup
\* service is a sequence of lines.
\* Longest response, in lines.
MaxLines == 2

\* Company names: empty, blank, and a name.
Names == {<< >>, <<" ">>, <<"A">>}

\* Lines the lookup service can answer with: an NSE ticker, the same in lower
\* case, a BSE ticker, a suffix whose symbol is outside the ticker alphabet,
\* and a line without any ticker.
ResponseLines ==
    {<<"A", ".", "N", "S">>, <<"a", ".", "n", "s">>, <<"B", ".", "B", "O">>,
     <<"_", ".", "N", "S">>, <<"_">>}

Responses == UNION {[1..n -> ResponseLines] : n \in 0..MaxLines}

\* str.upper() on one character.
UpperChar(c) ==
    CASE c = "a" -> "A"
      [] c = "b" -> "B"
      [] c = "n" -> "N"
      [] c = "o" -> "O"
      [] c = "s" -> "S"
      [] OTHER -> c

UpperSeq(w) == [i \in 1..Len(w) |-> UpperChar(w[i])]

\* Variant: the match is kept as it was written.
MatchUpperNot(m) == m

\* ticker = match.upper()
MatchUpper(m) == UpperSeq(m)

\* The character class [A-Z0-9&\-] under re.IGNORECASE.
SymbolChars == {"A", "B", "N", "O", "S", "a", "b", "n", "o", "s"}

\* \.(?:NS|BO) under re.IGNORECASE matches at position j of the line.
SuffixAt(line, j) ==
    /\ j + 2 <= Len(line)
    /\ line[j] = "."
    /\ <<UpperChar(line[j + 1]), UpperChar(line[j + 2])>> \in {<<"N", "S">>, <<"B", "O">>}

\* Positions at which ([A-Z0-9&\-]+\.(?:NS|BO)) matches.
MatchStarts(line) ==
    {i \in 1..Len(line) :
        \E j \in i..Len(line) :
            /\ \A k \in i..j : line[k] \in SymbolChars
            /\ SuffixAt(line, j + 1)}

\* re.findall(...) on one line: the leftmost match, then the matches of the
\* rest of the line.
RECURSIVE FindAll(_)
FindAll(line) ==
    IF MatchStarts(line) = {} THEN << >>
    ELSE LET i == CHOOSE a \in MatchStarts(line) : \A b \in MatchStarts(line) : a <= b
             j == CHOOSE e \in i..Len(line) :
                    /\ \A k \in i..e : line[k] \in SymbolChars
                    /\ SuffixAt(line, e + 1)
         IN <<SubSeq(line, i, j + 3)>> \o FindAll(SubSeq(line, j + 4, Len(line)))

InSeq(x, xs) == \E i \in 1..Len(xs) : xs[i] = x

\* if ticker not in tickers: tickers.append(ticker), for each item in turn.
RECURSIVE AppendUnique(_, _)
AppendUnique(tickers, items) ==
    IF items = << >> THEN tickers
    ELSE AppendUnique(IF InSeq(Head(items), tickers) THEN tickers
                      ELSE Append(tickers, Head(items)),
                      Tail(items))

\* The first loop of _parse_ticker_response: the upper-cased matches of every
\* line, in order, without repetition.
RECURSIVE RegexTickers(_, _)
RegexTickers(tickers, lines) ==
    IF lines = << >> THEN tickers
    ELSE RegexTickers(
            AppendUnique(tickers,
                [i \in 1..Len(FindAll(Head(lines))) |-> MatchUpper(FindAll(Head(lines))[i])]),
            Tail(lines))

\* '.NS' in word or '.BO' in word
HasSuffixInside(word) ==
    \E j \in 1..Len(word) :
        /\ j + 2 <= Len(word)
        /\ SubSeq(word, j, j + 2) \in {<<".", "N", "S">>, <<".", "B", "O">>}

\* re.sub(r'[^A-Z0-9.\-&]', '', word)
RECURSIVE CleanWord(_)
CleanWord(word) ==
    IF word = << >> THEN << >>
    ELSE (IF Head(word) \in {"A", "B", "N", "O", "S", "."} THEN <<Head(word)>> ELSE << >>)
            \o CleanWord(Tail(word))

\* ticker.endswith('.NS') or ticker.endswith('.BO')
EndsWithSuffix(ticker) ==
    /\ Len(ticker) >= 3
    /\ SubSeq(ticker, Len(ticker) - 2, Len(ticker)) \in {<<".", "N", "S">>, <<".", "B", "O">>}

\* The second loop of _parse_ticker_response, over the upper-cased words.
RECURSIVE WordTickers(_, _)
WordTickers(tickers, words) ==
    IF words = << >> THEN tickers
    ELSE LET word == UpperSeq(Head(words))
             ticker == CleanWord(word)
         IN WordTickers(
                IF HasSuffixInside(word) /\ ticker # << >> /\ EndsWithSuffix(ticker)
                   /\ ~InSeq(ticker, tickers)
                THEN Append(tickers, ticker) ELSE tickers,
                Tail(words))

\* _parse_ticker_response(response_text)
ParseTickerResponse(lines) ==
    IF RegexTickers(<< >>, lines) # << >> THEN RegexTickers(<< >>, lines)
    ELSE WordTickers(<< >>, lines)

\* not company_name or company_name.strip() == ""
BlankName(name) == \A i \in 1..Len(name) : name[i] = " "

TfInit ==
    /\ SimIdle
    /\ DfIdle
    /\ AnIdle
    /\ PipeIdle
    /\ TfIdle

\* find_ticker with an empty or blank name: None.
FindTickerBlank ==
    /\ tf_pc = "idle"
    /\ \E name \in Names :
        /\ BlankName(name)
        /\ tf_name' = name
    /\ tf_result' = NoData
    /\ tf_pc' = "returned"
    /\ UNCHANGED <<tf_response, tf_candidates, tf_i, tf_checked,
                   simvars, dfvars, anvars, pipevars>>

\* find_ticker, the lookup gives no candidates: the service answered
\* NOT_FOUND or raised (the query returns []): None.
FindTickerNotFound ==
    /\ tf_pc = "idle"
    /\ \E name \in Names :
        /\ ~BlankName(name)
        /\ tf_name' = name
    /\ tf_result' = NoData
    /\ tf_pc' = "returned"
    /\ UNCHANGED <<tf_response, tf_candidates, tf_i, tf_checked,
                   simvars, dfvars, anvars, pipevars>>

\* find_ticker, the lookup answers with text: the text is parsed; without
\* candidates None is returned, otherwise the validation loop starts.
FindTickerQuery ==
    /\ tf_pc = "idle"
    /\ \E name \in Names :
        /\ ~BlankName(name)
        /\ tf_name' = name
    /\ \E text \in Responses :
        /\ tf_response' = Some(text)
        /\ tf_candidates' = ParseTickerResponse(text)
        /\ tf_pc' = IF ParseTickerResponse(text) = << >> THEN "returned" ELSE "validate"
    /\ tf_i' = 1
    /\ tf_result' = NoData
    /\ UNCHANGED <<tf_checked, simvars, dfvars, anvars, pipevars>>

\* One iteration of  for ticker in ticker_candidates: _validate_ticker
\* answers True (the ticker is returned) or False (next candidate).
ValidateCandidate ==
    /\ tf_pc = "validate"
    /\ tf_i <= Len(tf_candidates)
    /\ \E ok \in BOOLEAN :
        /\ tf_checked' = Append(tf_checked, [ticker |-> tf_candidates[tf_i], ok |-> ok])
        /\ tf_result' = IF ok THEN Some(tf_candidates[tf_i]) ELSE tf_result
        /\ tf_pc' = IF ok THEN "returned" ELSE "validate"
        /\ tf_i' = IF ok THEN tf_i ELSE tf_i + 1
    /\ UNCHANGED <<tf_name, tf_response, tf_candidates,
                   simvars, dfvars, anvars, pipevars>>

\* The loop ends without a validated candidate: None.
FindTickerNoneValid ==
    /\ tf_pc = "validate"
    /\ tf_i > Len(tf_candidates)
    /\ tf_result' = NoData
    /\ tf_pc' = "returned"
    /\ UNCHANGED <<tf_name, tf_response, tf_candidates, tf_i, tf_checked,
                   simvars, dfvars, anvars, pipevars>>

TfNext ==
    \/ FindTickerBlank
    \/ FindTickerNotFound
    \/ FindTickerQuery
    \/ ValidateCandidate
    \/ FindTickerNoneValid

TfSpec == TfInit /\ [][TfNext]_vars

\* ------------------------------------------- claims on the ticker finder
\* C22: find_ticker returns None or a ticker that ends with .NS or .BO and
\* that _validate_ticker accepted; the ticker is the first one, in the order
\* parsed from the response, that validates; None is returned exactly when
\* the name is blank, there is no candidate, or no candidate validates.
C22_FirstValidatedTicker ==
    tf_pc = "returned" =>
        /\ tf_response.some => tf_candidates = ParseTickerResponse(tf_response.v)
        /\ \A k \in 1..Len(tf_checked) :
            /\ tf_checked[k].ticker = tf_candidates[k]
            /\ k < Len(tf_checked) => ~tf_checked[k].ok
        /\ tf_result.some =>
            /\ EndsWithSuffix(tf_result.v)
            /\ tf_checked # << >>
            /\ tf_checked[Len(tf_checked)].ok
            /\ tf_result.v = tf_candidates[Len(tf_checked)]
        /\ ~tf_result.some <=>
            \/ BlankName(tf_name)
            \/ tf_candidates = << >>
            \/ /\ Len(tf_checked) = Len(tf_candidates)
               /\ \A k \in 1..Len(tf_checked) : ~tf_checked[k].ok

\* Witness C22: the response named a ticker in lower case and then another;
\* the first failed validation and the second was returned.
C22_Witness ==
    /\ tf_pc = "returned"
    /\ tf_response.some
    /\ tf_response.v = <<<<"a", ".", "n", "s">>, <<"B", ".", "B", "O">>>>
    /\ tf_candidates = <<<<"A", ".", "N", "S">>, <<"B", ".", "B", "O">>>>
    /\ Len(tf_checked) = 2
    /\ tf_result = Some(<<"B", ".", "B", "O">>)


\* ------------------------------------------ claims on the simulator, III
\* A step of the day loop: rows other than row t stay as they are, row t is
\* computed path by path from row t-1 and the path's own draw, and the loop
\* moves on to day t+1.
DayStepInOrder ==
    (pc = "loop" /\ t' # t) =>
        /\ t \in 1..(forecast_days - 1)
        /\ t' = t + 1
        /\ \A d \in Days : d > t => \A p \in Paths : simulations[d][p] = Zero
        /\ \A d \in Days \ {t} : simulations'[d] = simulations[d]
        /\ \A p \in Paths :
            simulations'[t][p] = NextPrice(simulations[t - 1][p], mu, sigma, Z'[t][p])

\* C23: the days are computed in increasing order, each row written once and
\* after the row before it, and within a day the value of a path depends on
\* that path's previous-day value and on that path's own draw only.
C23_DaysInOrderPathsIndependent == [][DayStepInOrder]_vars

\* Witness C23: two paths drew alike on day 1 and differently on day 2; they
\* agree on day 1 and differ on day 2.
C23_Witness ==
    /\ pc = "returned" /\ ValidCall
    /\ forecast_days = 3 /\ num_simulations = 2
    /\ sigma # 0
    /\ Z[1][0] = Z[1][1] /\ Z[2][0] # Z[2][1]
    /\ simulations[1][0] = simulations[1][1]
    /\ simulations[1][0].k = "num"
    /\ simulations[2][0] # simulations[2][1]

(***************************************************************************)
(* Claims on the ResultAnalyzer, II                                        *)
(***************************************************************************)

\* The final prices the analysis was made from.
FinalRow == FinalPrices(ensemble.v)

\* The ends of the histogram's range and the edge of bin i, each as a number
\* of two-hundredths (Edges200[0] and Edges200[100] are the ends of the range): the range is [min, max] of the final prices, widened by
\* one half on both sides when they are all equal.
RangeLow200 ==
    IF \A p \in DOMAIN FinalRow : FinalRow[p] = FinalRow[0]
    THEN 200 * FinalRow[0] - 100 ELSE 200 * NpMin(FinalRow).n
RangeHigh200 ==
    IF \A p \in DOMAIN FinalRow : FinalRow[p] = FinalRow[0]
    THEN 200 * FinalRow[0] + 100 ELSE 200 * NpMax(FinalRow).n
Edges200 ==
    LET low == RangeLow200
        high == RangeHigh200
    IN [i \in 0..100 |-> low + i * ((high - low) \div 100)]

\* The number of final prices in each bin: from its lower edge up to, and for
\* the last bin including, its upper edge.
InBins ==
    LET edge == Edges200
    IN [i \in 0..99 |->
        Cardinality({p \in DOMAIN FinalRow :
            /\ edge[i] <= 200 * FinalRow[p]
            /\ \/ 200 * FinalRow[p] < edge[i + 1]
               \/ i = 99 /\ 200 * FinalRow[p] = edge[100]})]

\* C24: the modal price range reported by the distribution analysis is the
\* pair of edges of one bin of the 100-bin equal-width histogram of the final
\* prices; that bin holds at least as many prices as every other bin and is
\* the lowest-priced of the bins that do; its lower edge is below its upper
\* edge and both lie within the histogram's range.
C24_ModalRangeIsFullestBin ==
    (DistributionAsked /\ an_exc = "none") =>
        LET edge == Edges200
            count == InBins
        IN \E i \in 0..99 :
            /\ an_out.modal.lo = Frac(edge[i], 200)
            /\ an_out.modal.hi = Frac(edge[i + 1], 200)
            /\ \A k \in 0..99 : count[k] <= count[i]
            /\ \A k \in 0..(i - 1) : count[k] < count[i]
            /\ edge[i] < edge[i + 1]
            /\ edge[0] <= edge[i]
            /\ edge[i + 1] <= edge[100]

\* Witness C24: a distribution analysis of final prices 1 and 3 in equal
\* numbers, where the lowest and the highest bin tie: the range reported is
\* the lowest bin, 1 to 1.02.
C24_Witness ==
    /\ an_op = "_explain_price_distribution" /\ results.some /\ an_exc = "none"
    /\ InBins[0] = InBins[99] /\ InBins[0] > 0
    /\ an_out.modal = [lo |-> Frac(1, 1), hi |-> Frac(51, 50)]

\* The number of paths, and n times the distance of path p's final price
\* from the mean of the final prices.
PathCount == Cardinality(DOMAIN FinalRow)
Dev(p) == PathCount * FinalRow[p] - RowSum(FinalRow)
SumDevSquared == SumOver([q \in DOMAIN FinalRow |-> Dev(q) * Dev(q)], PathCount)

\* The final prices above the current price, above their mean, and no
\* further than one standard deviation from their mean (ends included).
AboveCurrent == {p \in DOMAIN FinalRow : FinalRow[p] > an_current_price}
AboveMean == {p \in DOMAIN FinalRow : Dev(p) > 0}
WithinOneStd == {p \in DOMAIN FinalRow : Dev(p) * Dev(p) * PathCount <= SumDevSquared}

\* A percentage between 0 and 100.
IsPercentage(x) == x.k = "num" /\ 0 <= x.n /\ x.n <= 100 * x.d

\* The paths analysis has just been asked for.
PathsAsked ==
    \/ an_op = "_explain_simulation_paths"
    \/ an_op = "print_full_analysis" /\ results.some

\* C25: the probability masses reported are counts over the final prices
\* divided by the number of paths: strictly above the current price, strictly
\* above the mean, and from mean - std to mean + std inclusive; each is
\* between 0% and 100%; and the numbers of paths above and at or below the
\* current price add up to the number of paths.
C25_ProbabilityMasses ==
    /\ (DistributionAsked /\ an_exc = "none") =>
        /\ an_out.above_current = Frac(100 * Cardinality(AboveCurrent), PathCount)
        /\ an_out.above_mean = Frac(100 * Cardinality(AboveMean), PathCount)
        /\ an_out.within_std = Frac(100 * Cardinality(WithinOneStd), PathCount)
        /\ IsPercentage(an_out.above_current)
        /\ IsPercentage(an_out.above_mean)
        /\ IsPercentage(an_out.within_std)
    /\ (PathsAsked /\ an_exc = "none") =>
        /\ an_out.paths_above = Cardinality(AboveCurrent)
        /\ an_out.paths_below = PathCount - Cardinality(AboveCurrent)
        /\ an_out.paths_above + an_out.paths_below = PathCount

\* Witness C25: a full analysis of final prices 1 and 3 from a current price
\* of 1: one path above and one at the current price, half the paths above
\* the mean, and both prices, lying exactly one standard deviation from the
\* mean, counted as within it.
C25_Witness ==
    /\ an_op = "print_full_analysis" /\ results.some /\ an_exc = "none"
    /\ PathCount = 2
    /\ \A p \in DOMAIN FinalRow : Dev(p) * Dev(p) * PathCount = SumDevSquared
    /\ an_out.paths_above = 1 /\ an_out.paths_below = 1
    /\ an_out.above_current = Frac(50, 1)
    /\ an_out.above_mean = Frac(50, 1)
    /\ an_out.within_std = Frac(100, 1)

\* The confidence-interval analysis has just been asked for.
ConfidenceAsked ==
    \/ an_op = "_explain_confidence_intervals"
    \/ an_op = "print_full_analysis" /\ results.some

\* C26: for an ensemble of forecast_days >= 1 rows the confidence-interval
\* analysis has, for the mean and for each of the 5th, 25th, 75th and 95th
\* percentiles, exactly one entry per day, entry d computed from row d; and
\* the mid-horizon index forecast_days // 2 is one of 0..forecast_days-1, so
\* reading the bands there raises no IndexError.
C26_BandsPerDayMidPointValid ==
    ConfidenceAsked =>
        LET days == NumDays(ensemble.v)
        IN /\ days >= 1
           /\ an_exc # "IndexError"
           /\ an_op = "_explain_confidence_intervals" => an_exc = "none"
           /\ an_exc = "none" =>
                /\ DOMAIN an_out.mean_path = 0..(days - 1)
                /\ DOMAIN an_out.bands = 0..(days - 1)
                /\ \A d \in 0..(days - 1) :
                    /\ an_out.mean_path[d]
                         = Frac(RowSum(ensemble.v[d]), NumPaths(ensemble.v))
                    /\ an_out.bands[d].p5 = NpPercentile(ensemble.v[d], 5)
                    /\ an_out.bands[d].p25 = NpPercentile(ensemble.v[d], 25)
                    /\ an_out.bands[d].p75 = NpPercentile(ensemble.v[d], 75)
                    /\ an_out.bands[d].p95 = NpPercentile(ensemble.v[d], 95)
                /\ an_out.mid_point \in 0..(days - 1)
                /\ 2 * an_out.mid_point <= days
                /\ days < 2 * an_out.mid_point + 2

\* Witness C26: the analysis was made for a two-day ensemble whose rows have
\* different means; the mid-horizon index is 1, the last row.
C26_Witness ==
    /\ an_op = "_explain_confidence_intervals" /\ an_exc = "none" /\ an_out.text
    /\ NumDays(ensemble.v) = 2
    /\ DOMAIN an_out.bands = {0, 1}
    /\ an_out.mean_path[0] # an_out.mean_path[1]
    /\ an_out.mid_point = 1

(***************************************************************************)
(* Claims on the DataFetcher, II                                           *)
(***************************************************************************)

\* The methods guarded by the "No data available" check.
GuardedOps ==
    {"calculate_parameters", "get_current_price", "get_price_history",
     "get_summary_statistics"}

\* Nothing the fetcher holds is touched by the step.
FetcherKept ==
    /\ data' = data
    /\ returns' = returns
    /\ df_mu' = df_mu
    /\ df_sigma' = df_sigma

\* On a fetcher that never fetched, a guarded method has raised ValueError
\* and print_summary has returned normally; nothing has been assigned.
NeverFetchedGuarded ==
    ~data.some =>
        /\ ~returns.some /\ ~df_mu.some /\ ~df_sigma.some
        /\ df_op \in GuardedOps => df_exc = "ValueError"
        /\ df_op = "print_summary" => df_exc = "none"

\* On a fetcher that never fetched, a call of a guarded method or of
\* print_summary changes nothing.
NeverFetchedKept ==
    (~data.some /\ df_op' \in GuardedOps \cup {"print_summary"}) => FetcherKept

\* C27: on a DataFetcher on which fetch_data was never called, each of
\* calculate_parameters, get_current_price, get_price_history and
\* get_summary_statistics raises the "No data available" ValueError and leaves
\* data, returns, mu and sigma None; print_summary returns without raising and
\* without changing anything.
C27_NeverFetchedRaises == [](NeverFetchedGuarded) /\ [][NeverFetchedKept]_vars

\* Witness C27: get_summary_statistics was called on a fetcher that never
\* fetched and raised ValueError; data, returns, mu and sigma are None.
C27_Witness ==
    /\ ~data.some /\ ~returns.some /\ ~df_mu.some /\ ~df_sigma.some
    /\ df_op = "get_summary_statistics"
    /\ df_exc = "ValueError"

\* C28: a fetch_data call that failed on an empty series leaves the fetcher
\* without data (self.data is None), and as long as no series with rows was
\* fetched the guarded methods raise the "No data available" ValueError.
C28_FailedFetchLeavesNoData ==
    /\ (df_op = "fetch_data" /\ df_exc = "ValueError") => ~data.some
    /\ (data.v = << >> /\ df_op \in GuardedOps) => df_exc = "ValueError"

(***************************************************************************)
(* Claims on the pipeline, II                                              *)
(***************************************************************************)

\* The keys that carry results.
ResultKeys == {"results", "plots", "explanations", "mu", "sigma"}

\* C29: run_prediction never lets an exception out: once it has ended it has
\* returned a dictionary; when a call failed or no ticker was resolved the
\* dictionary has success = False, an error message and none of the result
\* keys; it has success = True only when every call of the pipeline was made
\* and completed; and when no ticker was resolved it returned before any fetch
\* or simulation.
C29_RunPredictionAlwaysReturns ==
    pipe_entry = "run_prediction" =>
        /\ pipe_status \in {"running", "finished", "no_ticker", "error"}
        /\ pipe_status # "running" => pipe_response.returned
        /\ pipe_status \in {"no_ticker", "error"} =>
            /\ ~pipe_response.success
            /\ "error" \in pipe_response.keys
            /\ pipe_response.keys \cap ResultKeys = {}
        /\ (pipe_response.returned /\ pipe_response.success) =>
            /\ pipe_status = "finished"
            /\ pipe_log = AppSteps
            /\ ResultKeys \subseteq pipe_response.keys
        /\ pipe_status = "no_ticker" =>
            /\ ~Started("fetch") /\ ~Started("simulate")
            /\ ~data.some

\* Witness C29: run_prediction got through the simulation and the statistics,
\* a later call raised, and the failure dictionary was returned.
C29_Witness ==
    /\ pipe_entry = "run_prediction"
    /\ Started("statistics")
    /\ pipe_status = "error"
    /\ pipe_response.returned /\ ~pipe_response.success
    /\ pipe_response.keys = {"success", "error"}

=============================================================================
